---------------------------- MODULE Spec2Model ----------------------------
(***************************************************************************)
(* The DataAnalyzer command-line tools of the exercises                    *)
(*   exercises/github-actions/project/data_analyzer.py   ("gha")           *)
(*   exercises/docker-intro/project/data_analyzer.py     ("docker")        *)
(* and the DataProcessor of exercises/05-feature-workflow/project/main.py.   *)
(*                                                                         *)
(* Numbers.  A data value (a Python float) is an integer counting TENTHS,  *)
(* the resolution of the literals of the hard-coded sample dataset.  A     *)
(* reported value (the result of round(x, precision)) is an integer        *)
(* counting HUNDREDTHS, the resolution of the default precision 2.  A      *)
(* precision above 2 therefore shows no more digits in the model than      *)
(* precision 2 does; precisions 2, 1, 0 and the negative ones round as     *)
(* round() does on exactly representable values (ties to even).            *)
(*                                                                         *)
(* Mappings.  A Python dict that is iterated (results, statistics) is a    *)
(* sequence of entries [key, val] in insertion order.  The configuration   *)
(* and the environment are TLA+ functions whose DOMAIN is the set of keys  *)
(* present.                                                                *)
(***************************************************************************)
EXTENDS Integers, Sequences, FiniteSets, Bags, TLC

VARIABLES
    env,        \* os.environ: function from the names that are set to their text
    datafile,   \* what is stored at the path given with --data
    fs,         \* the output directories and the result files in them
    analyzer,   \* the DataAnalyzer instance: variant, config, results
    processor,  \* the DataProcessor instance: results
    last,       \* the operation that ran last: its arguments and its outcome
    out         \* what that operation printed, as a sequence of message tags

vars == <<env, datafile, fs, analyzer, processor, last, out>>

-----------------------------------------------------------------------------
(* Bounds of the model *)

\* Longest dataset handed directly to calculate_basic_stats / _advanced_stats.
MaxLen == 4

\* Most environment variables set at once.
MaxEnvVars == 1

-----------------------------------------------------------------------------
(* Integer helpers *)

\* Body(v), with v evaluated once however often Body uses it.
With(v, Body(_)) == CHOOSE r \in {Body(x) : x \in {v}} : TRUE

RECURSIVE Pow10(_)
Pow10(k) == IF k <= 0 THEN 1 ELSE 10 * Pow10(k - 1)

Min2(a, b) == IF a <= b THEN a ELSE b
Max2(a, b) == IF a >= b THEN a ELSE b

\* Sums, minimum and maximum of s[lo..hi], by halving the range.
RECURSIVE SumRange(_, _, _)
SumRange(s, lo, hi) ==
    IF lo > hi THEN 0
    ELSE IF lo = hi THEN s[lo]
    ELSE SumRange(s, lo, (lo + hi) \div 2) + SumRange(s, (lo + hi) \div 2 + 1, hi)

RECURSIVE MinRange(_, _, _)
MinRange(s, lo, hi) ==
    IF lo = hi THEN s[lo]
    ELSE Min2(MinRange(s, lo, (lo + hi) \div 2), MinRange(s, (lo + hi) \div 2 + 1, hi))

RECURSIVE MaxRange(_, _, _)
MaxRange(s, lo, hi) ==
    IF lo = hi THEN s[lo]
    ELSE Max2(MaxRange(s, lo, (lo + hi) \div 2), MaxRange(s, (lo + hi) \div 2 + 1, hi))

\* sum(s).  A sequence of positive numbers is a bag holding s[i] copies of
\* i, whose cardinality is the sum.
SumSeq(s) ==
    IF s # <<>> /\ \A i \in 1..Len(s) : s[i] > 0 THEN BagCardinality(s)
    ELSE SumRange(s, 1, Len(s))

\* sum(x * x for x in s), as the cardinality of the bag of the squares, each
\* with one copy more so that none is empty.
SumSq(s) == BagCardinality([i \in 1..Len(s) |-> s[i] * s[i] + 1]) - Len(s)

MinSeq(s) == MinRange(s, 1, Len(s))       \* min(s), s not empty
MaxSeq(s) == MaxRange(s, 1, Len(s))       \* max(s), s not empty

RECURSIVE Sorted(_)

\* No sorting at all: what C20 must tell from sorted().
Unsorted(s) == s

\* sorted(s), ascending: the elements below the middle one sorted, those
\* equal to it, those above it sorted.
Sorted(s) ==
    IF Len(s) <= 1 THEN s
    ELSE With(s[(Len(s) + 1) \div 2], LAMBDA pivot :
            Sorted(SelectSeq(s, LAMBDA x : x < pivot))
            \o SelectSeq(s, LAMBDA x : x = pivot)
            \o Sorted(SelectSeq(s, LAMBDA x : x > pivot)))

\* The integer nearest to num/den (den > 0), ties to the even one: what
\* round() does with a value that lies exactly between two candidates.
RoundHalfEven(num, den) ==
    LET q == num \div den
        r == num - q * den
    IN  IF 2 * r < den THEN q
        ELSE IF 2 * r > den THEN q + 1
        ELSE IF q % 2 = 0 THEN q ELSE q + 1

\* round(num / (den * 10^k), precision), in hundredths.
Round(num, den, k, precision) ==
    LET p == Min2(precision, 2)
        e == p - k
        m == IF e >= 0 THEN RoundHalfEven(num * Pow10(e), den)
                       ELSE RoundHalfEven(num, den * Pow10(-e))
    IN  m * Pow10(2 - p)

\* Largest t with t * t <= x, for x >= 0.
RECURSIVE ISqrtFrom(_, _)
ISqrtFrom(x, t) == IF (t + 1) * (t + 1) > x THEN t ELSE ISqrtFrom(x, t + 1)

RECURSIVE ISqrt(_)
ISqrt(x) ==
    IF x < 4 THEN ISqrtFrom(x, 0)
    ELSE With(2 * ISqrt(x \div 4), LAMBDA h :
            IF (h + 1) * (h + 1) <= x THEN h + 1 ELSE h)

\* The integer nearest to sqrt(mult * num / den) (num >= 0, den > 0), ties to
\* even.  floor(4 * mult * num / den) is formed from quotient and remainder
\* so that the intermediate products stay small.
RoundSqrt(num, den, mult) ==
    LET q == num \div den
        r == num % den
        f == 4 * mult * q + (4 * mult * r) \div den
        whole == ((4 * mult * r) % den = 0)
    IN  With(ISqrt(f), LAMBDA t :          \* t = floor(2 * sqrt(mult * num / den))
            IF t % 2 = 0 THEN t \div 2
            ELSE IF whole /\ t * t = f /\ ((t - 1) \div 2) % 2 = 0
                THEN (t - 1) \div 2       \* exactly between: the even one
            ELSE (t + 1) \div 2)

-----------------------------------------------------------------------------
(* Python dicts kept in insertion order *)

IntEntry(k, v)   == [key |-> k, val |-> v, kind |-> "int"]
FloatEntry(k, v) == [key |-> k, val |-> v, kind |-> "float"]

Keys(d) == {d[i].key : i \in 1..Len(d)}

KeySeq(d) == [i \in 1..Len(d) |-> d[i].key]

HasKey(d, k) == k \in Keys(d)

Get(d, k) == (CHOOSE e \in {d[i] : i \in 1..Len(d)} : e.key = k).val

\* d[e.key] = e.val: an existing key keeps its place, a new key goes last.
Put(d, e) ==
    IF HasKey(d, e.key)
        THEN [i \in 1..Len(d) |-> IF d[i].key = e.key THEN e ELSE d[i]]
        ELSE Append(d, e)

\* dict.update(other)
RECURSIVE Update(_, _)
Update(d, other) ==
    IF other = <<>> THEN d ELSE Update(Put(d, Head(other)), Tail(other))

-----------------------------------------------------------------------------
(* statistics: mean, median, stdev, variance of data in tenths, rounded *)

\* round(statistics.mean(data), precision)
MeanRounded(data, precision) == Round(SumSeq(data), Len(data), 1, precision)

\* A median that takes the lower middle element whatever the count: what C11
\* must tell from statistics.median.
MedianLowRounded(data, precision) ==
    With(Sorted(data), LAMBDA s : Round(s[(Len(data) + 1) \div 2], 1, 1, precision))

\* round(statistics.median(data), precision): the middle element of the
\* sorted data, the average of the two middle ones when the count is even.
MedianRounded(data, precision) ==
    With(Sorted(data), LAMBDA s :
        LET n == Len(data)
        IN  IF n % 2 = 1 THEN Round(s[(n \div 2) + 1], 1, 1, precision)
            ELSE Round(s[n \div 2] + s[(n \div 2) + 1], 2, 1, precision))

\* n * sum(x^2) - sum(x)^2: the sample variance is this over n * (n - 1).
VarNumer(data) == Len(data) * SumSq(data) - SumSeq(data) * SumSeq(data)

\* round(statistics.variance(data), precision), sample variance (n - 1).
VarianceRounded(data, precision) ==
    With(VarNumer(data), LAMBDA numer :
        Round(numer, Len(data) * (Len(data) - 1), 2, precision))

\* round(statistics.stdev(data), precision): square root of the variance.
StdevRounded(data, precision) ==
    With(VarNumer(data), LAMBDA numer :
        LET p == Min2(precision, 2)
            den == Len(data) * (Len(data) - 1)
        IN  IF p >= 1 THEN RoundSqrt(numer, den, Pow10(2 * p - 2)) * Pow10(2 - p)
            ELSE RoundSqrt(numer, den * Pow10(2 - 2 * p), 1) * Pow10(2 - p))

-----------------------------------------------------------------------------
(* Outcome of a call: the value returned, or the exception raised *)

Ok(v)      == [exc |-> "none", val |-> v]
Raise(e)   == [exc |-> e, val |-> <<>>]
Raised(r)  == r.exc # "none"

-----------------------------------------------------------------------------
(* DataAnalyzer.calculate_basic_stats and calculate_advanced_stats *)

\* The five metrics computed for every non-empty dataset.
BasicFive(data, precision) ==
    << IntEntry("count", Len(data)),
       FloatEntry("mean", MeanRounded(data, precision)),
       FloatEntry("median", MedianRounded(data, precision)),
       FloatEntry("min", Round(MinSeq(data), 1, 1, precision)),
       FloatEntry("max", Round(MaxSeq(data), 1, 1, precision)) >>

\* Standard deviation and variance, added for datasets with multiple points.
SpreadTwo(data, precision) ==
    << FloatEntry("std_dev", StdevRounded(data, precision)),
       FloatEntry("variance", VarianceRounded(data, precision)) >>

\* More than one element: the five metrics plus std_dev and variance.
BasicStatsOf(data, precision) ==
    IF Len(data) > 1
        THEN BasicFive(data, precision) \o SpreadTwo(data, precision)
        ELSE BasicFive(data, precision)

\* calculate_basic_stats(self, data) on an instance whose config is `config`.
CalculateBasicStats(config, data) ==
    IF data = <<>> THEN Ok(<<>>)
    ELSE IF "precision" \notin DOMAIN config THEN Raise("KeyError")
    ELSE Ok(BasicStatsOf(data, config["precision"]))

PercentileList == <<25, 50, 75, 90, 95>>

PercentileKey == [p \in {25, 50, 75, 90, 95} |->
    CASE p = 25 -> "p25" [] p = 50 -> "p50" [] p = 75 -> "p75"
      [] p = 90 -> "p90" [] p = 95 -> "p95"]

\* An index that rounds n * p / 100 up instead of down: what C17 must tell
\* from the code's.
PercentileIndexCeil(n, p) == Max2(0, Min2((n * p + 99) \div 100, n - 1))

\* index = max(0, min(int(n * p / 100), n - 1)), zero-based.
PercentileIndex(n, p) == Max2(0, Min2((n * p) \div 100, n - 1))

\* percentiles[f"p{p}"] = round(sorted_data[index], precision)
Percentiles(data, precision) ==
    With(Sorted(data), LAMBDA s :
        [i \in 1..Len(PercentileList) |->
            FloatEntry(PercentileKey[PercentileList[i]],
                Round(s[PercentileIndex(Len(data), PercentileList[i]) + 1],
                      1, 1, precision))])

\* A test that counts a value equal to a bound as an outlier: what C18 must
\* tell from the code's.
IsOutlierInclusive(x, q1, q3, iqr) ==
    \/ 20 * x <= 2 * q1 - 3 * iqr
    \/ 20 * x >= 2 * q3 + 3 * iqr

\* x < lower_bound or x > upper_bound, with lower_bound = q1 - 1.5 * iqr and
\* upper_bound = q3 + 1.5 * iqr; x in tenths, q1, q3, iqr in hundredths,
\* both sides doubled.
IsOutlier(x, q1, q3, iqr) ==
    \/ 20 * x < 2 * q1 - 3 * iqr
    \/ 20 * x > 2 * q3 + 3 * iqr

Outliers(data, q1, q3, iqr) ==
    SelectSeq(data, LAMBDA x : IsOutlier(x, q1, q3, iqr))

\* The quartiles subtracted the wrong way round: what C23 must tell from the
\* code's.
IqrSwapped(q1, q3, precision) == Round(q1 - q3, 1, 2, precision)

\* iqr = round(q3 - q1, precision), q1 and q3 in hundredths.
Iqr(q1, q3, precision) == Round(q3 - q1, 1, 2, precision)

\* The entries that follow the percentiles.
SpreadOf(data, precision, q1, q3) ==
    With(Iqr(q1, q3, precision), LAMBDA iqr :
    With(Len(Outliers(data, q1, q3, iqr)), LAMBDA outlier_count :
        << FloatEntry("iqr", iqr),
           IntEntry("outlier_count", outlier_count),
           FloatEntry("outlier_percentage",
                      Round(outlier_count * 100, Len(data), 0, precision)) >>))

AdvancedStatsOf(data, precision) ==
    With(Percentiles(data, precision), LAMBDA percentiles :
        percentiles \o SpreadOf(data, precision, Get(percentiles, "p25"),
                                Get(percentiles, "p75")))

\* calculate_advanced_stats(self, data)
CalculateAdvancedStats(config, data) ==
    IF Len(data) < 4 THEN Ok(<<>>)
    ELSE IF "precision" \notin DOMAIN config THEN Raise("KeyError")
    ELSE Ok(AdvancedStatsOf(data, config["precision"]))

-----------------------------------------------------------------------------
(* The environment and the configuration *)

Digit == [c \in {"0", "1", "2", "3", "4", "5", "6", "7", "8", "9"} |->
    CASE c = "0" -> 0 [] c = "1" -> 1 [] c = "2" -> 2 [] c = "3" -> 3
      [] c = "4" -> 4 [] c = "5" -> 5 [] c = "6" -> 6 [] c = "7" -> 7
      [] c = "8" -> 8 [] c = "9" -> 9]

RECURSIVE DigitsValue(_, _)
DigitsValue(t, acc) ==
    IF t = <<>> THEN acc ELSE DigitsValue(Tail(t), 10 * acc + Digit[Head(t)])

Unsigned(t) == IF t # <<>> /\ Head(t) \in {"+", "-"} THEN Tail(t) ELSE t

\* Whether int(t) accepts the text t (a sequence of characters): an optional
\* sign and at least one digit.
IsIntLiteral(t) ==
    /\ Unsigned(t) # <<>>
    /\ \A i \in 1..Len(Unsigned(t)) : Unsigned(t)[i] \in DOMAIN Digit

\* int(t) for a text it accepts.
IntOf(t) ==
    IF Head(t) = "-" THEN 0 - DigitsValue(Unsigned(t), 0)
    ELSE DigitsValue(Unsigned(t), 0)

\* os.getenv(name, default)
Getenv(e, name, default) == IF name \in DOMAIN e THEN e[name] ELSE default

\* str.lower() on the texts INCLUDE_OUTLIERS takes in the model.
Lower(s) == IF s \in {"TRUE", "True"} THEN "true"
            ELSE IF s \in {"FALSE", "False"} THEN "false" ELSE s

\* load_default_config(self): defaults with environment variable overrides.
LoadDefaultConfig(e) ==
    IF ~IsIntLiteral(Getenv(e, "PRECISION", <<"2">>)) THEN Raise("ValueError")
    ELSE Ok([ precision |-> IntOf(Getenv(e, "PRECISION", <<"2">>)),
              output_format |-> Getenv(e, "OUTPUT_FORMAT", "json"),
              analysis_mode |-> Getenv(e, "ANALYSIS_MODE", "standard"),
              include_outliers |-> (Lower(Getenv(e, "INCLUDE_OUTLIERS", "true")) = "true"),
              output_dir |-> Getenv(e, "OUTPUT_DIR", "./output") ])

\* A mapping with no key: an empty dict, and None where None means "no config".
NoConfig == [k \in {} |-> ""]

\* __init__: self.config = config or self.load_default_config().  An empty
\* mapping is falsy, like None.
InitConfig(config, e) ==
    IF DOMAIN config # {} THEN Ok(config) ELSE LoadDefaultConfig(e)

-----------------------------------------------------------------------------
(* The data file and load_dataset *)

NoPath   == ""                            \* no --data: file_path is None
DataPath == "data/sample_dataset.json"

Num(v)     == [t |-> "num", v |-> v]      \* a JSON number, in tenths
BoolItem(b) == [t |-> "bool", v |-> IF b THEN 10 ELSE 0]  \* float(True) = 1.0
Other(t)   == [t |-> t, v |-> 0]          \* "str", "null", "list", "dict"

NotAFile(kind) == [kind |-> kind, items |-> <<>>]
ArrayFile(items) == [kind |-> "array", items |-> items]

\* The hard-coded sample dataset of the github-actions variant, in tenths.
SampleDataset ==
    << 235, 182, 317, 451, 298, 164, 389, 523, 276, 412,
       198, 345, 281, 476, 229, 367, 334, 268, 421, 305,
       153, 487, 359, 214, 396, 251, 448, 323, 179, 462,
       128, 551, 374, 247, 439, 186, 502, 293, 358, 417,
       142, 495, 337, 264, 408, 201, 456, 319, 383, 427 >>

\* The hard-coded sample dataset of the docker-intro variant: the first 40.
DockerSampleDataset == SubSeq(SampleDataset, 1, 40)

\* isinstance(x, (int, float)): bool is a subclass of int.
IsNumeric(item) == item.t \in {"num", "bool"}

\* [float(x) for x in data if isinstance(x, (int, float))]
NumericEntries(items) ==
    LET kept == SelectSeq(items, IsNumeric)
    IN  [i \in 1..Len(kept) |-> kept[i].v]

LoadResult(exc, val, printed) == [exc |-> exc, val |-> val, printed |-> printed]

\* load_dataset(self, file_path), github-actions.
LoadDataset(file_path, file) ==
    IF file_path # NoPath /\ file.kind # "missing" THEN
        CASE file.kind = "directory" ->
                \* open() raises; OSError is not among the exceptions caught
                LoadResult("IsADirectoryError", <<>>, <<>>)
          [] file.kind = "array" ->
                LoadResult("none", NumericEntries(file.items), <<>>)
          [] file.kind \in {"object", "string"} ->
                \* iterating yields the keys / the characters: none is numeric
                LoadResult("none", <<>>, <<>>)
          [] file.kind \in {"number", "null"} ->
                \* TypeError (not iterable), caught
                LoadResult("none", SampleDataset, <<"Error loading data">>)
          [] OTHER ->
                \* "invalid": json.JSONDecodeError, caught
                LoadResult("none", SampleDataset, <<"Error loading data">>)
    ELSE LoadResult("none", SampleDataset, <<>>)

\* load_dataset(self, file_path), docker-intro: no try/except.
DockerLoadDataset(file_path, file) ==
    IF file_path # NoPath /\ file.kind # "missing" THEN
        CASE file.kind = "directory" -> LoadResult("IsADirectoryError", <<>>, <<>>)
          [] file.kind = "array" -> LoadResult("none", NumericEntries(file.items), <<>>)
          [] file.kind \in {"object", "string"} -> LoadResult("none", <<>>, <<>>)
          [] file.kind \in {"number", "null"} -> LoadResult("TypeError", <<>>, <<>>)
          [] OTHER -> LoadResult("JSONDecodeError", <<>>, <<>>)
    ELSE LoadResult("none", DockerSampleDataset, <<>>)

-----------------------------------------------------------------------------
(* The output directories, display_results and save_results *)

NoFile == [exists |-> FALSE, body |-> <<>>]
FileOf(body) == [exists |-> TRUE, body |-> body]

\* An output directory: whether it exists, and the two result files in it.
NoDir == [exists |-> FALSE, json |-> NoFile, csv |-> NoFile]

Abs(v) == IF v < 0 THEN 0 - v ELSE v

\* The digits repr() writes after the point for c hundredths: "0", one digit
\* or two, never a trailing zero.
FracText(c) ==
    IF c = 0 THEN <<0>>
    ELSE IF c % 10 = 0 THEN <<c \div 10>>
    ELSE <<c \div 10, c % 10>>

\* The text of a value as str() and json write it: an int has no point
\* (frac is empty), a float has one and at least one digit after it.
NumText(e) ==
    IF e.kind = "int"
        THEN [neg |-> e.val < 0, whole |-> Abs(e.val), frac |-> <<>>]
        ELSE [neg |-> e.val < 0, whole |-> Abs(e.val) \div 100,
              frac |-> FracText(Abs(e.val) % 100)]

\* The number json.load reads from such a text: an int without a point, a
\* float (in hundredths) with one.
ParseNumber(key, text) ==
    LET sign == IF text.neg THEN -1 ELSE 1
    IN  IF text.frac = <<>> THEN IntEntry(key, sign * text.whole)
        ELSE FloatEntry(key, sign * (100 * text.whole
                 + (IF Len(text.frac) = 1 THEN 10 * text.frac[1]
                    ELSE 10 * text.frac[1] + text.frac[2])))

\* A file that writes the members last to first: what C15 must tell from
\* the code's.
CsvDumpReversed(results) ==
    <<[key |-> "metric", text |-> "value"]>>
    \o [i \in 1..Len(results) |->
           [key |-> results[Len(results) + 1 - i].key,
            text |-> NumText(results[Len(results) + 1 - i])]]

\* "metric,value" and one "key,value" line per entry, in insertion order.
CsvDump(results) ==
    <<[key |-> "metric", text |-> "value"]>>
    \o [i \in 1..Len(results) |-> [key |-> results[i].key, text |-> NumText(results[i])]]

\* A dump that writes every value as an int, without its fraction: what C16
\* must tell from the code's.
JsonDumpWhole(results) ==
    [i \in 1..Len(results) |->
        [key |-> results[i].key,
         text |-> [NumText(results[i]) EXCEPT !.frac = <<>>]]]

\* json.dump(self.results, f, ...): the members in insertion order, each
\* value as its text.
JsonDump(results) ==
    [i \in 1..Len(results) |-> [key |-> results[i].key, text |-> NumText(results[i])]]

\* json.load(f) of such a file: a mapping in the file's order.
JsonLoad(body) ==
    [i \in 1..Len(body) |-> ParseNumber(body[i].key, body[i].text)]

SaveResult(exc, files, printed) == [exc |-> exc, fs |-> files, printed |-> printed]

MkDir(files, dir) == [files EXCEPT ![dir].exists = TRUE]

\* A guard that makes the directories before it returns: what C14 must tell
\* from the code's.
NoResultsMakesDirs(files) ==
    SaveResult("none", [d \in DOMAIN files |-> [files[d] EXCEPT !.exists = TRUE]],
               <<"No results to save">>)

\* The guard of save_results: with no results the notice is printed and the
\* method returns before it touches the disk.
NoResultsToSave(files) == SaveResult("none", files, <<"No results to save">>)

\* An else branch that raises instead of returning, as the docker-intro
\* save step ends up doing: C5 must tell it from the code's.
UnsupportedFormatRaises(made) ==
    SaveResult("ValueError", made, <<>>)

\* The else branch of save_results: the format is reported and the method
\* returns; `made` is the files after os.makedirs.
UnsupportedFormat(made) ==
    SaveResult("none", made, <<"Unsupported output format">>)

\* save_results(self), github-actions.
SaveResults(config, results, files) ==
    IF results = <<>> THEN NoResultsToSave(files)
    ELSE IF "output_dir" \notin DOMAIN config THEN SaveResult("KeyError", files, <<>>)
    ELSE LET dir == config["output_dir"]
             made == MkDir(files, dir)
         IN  IF "output_format" \notin DOMAIN config
                 THEN SaveResult("KeyError", made, <<>>)
             ELSE IF config["output_format"] = "json" THEN
                 IF "precision" \notin DOMAIN config
                     \* indent=self.config["precision"] fails with the file open
                     THEN SaveResult("KeyError",
                                     [made EXCEPT ![dir].json = FileOf(<<>>)], <<>>)
                     ELSE SaveResult("none",
                                     [made EXCEPT ![dir].json = FileOf(JsonDump(results))],
                                     <<"Results saved to">>)
             ELSE IF config["output_format"] = "csv" THEN
                 SaveResult("none",
                            [made EXCEPT ![dir].csv = FileOf(CsvDump(results))],
                            <<"Results saved to">>)
             ELSE UnsupportedFormat(made)

\* save_results(self), docker-intro: no check for empty results, no else
\* branch; output_file is unbound when neither format matched.
DockerSaveResults(config, results, files) ==
    IF "output_dir" \notin DOMAIN config THEN SaveResult("KeyError", files, <<>>)
    ELSE LET dir == config["output_dir"]
             made == MkDir(files, dir)
         IN  IF "output_format" \notin DOMAIN config
                 THEN SaveResult("KeyError", made, <<>>)
             ELSE IF config["output_format"] = "json" THEN
                 IF "precision" \notin DOMAIN config
                     THEN SaveResult("KeyError",
                                     [made EXCEPT ![dir].json = FileOf(<<>>)], <<>>)
                     ELSE SaveResult("none",
                                     [made EXCEPT ![dir].json = FileOf(JsonDump(results))],
                                     <<"Results saved to">>)
             ELSE IF config["output_format"] = "csv" THEN
                 SaveResult("none",
                            [made EXCEPT ![dir].csv = FileOf(CsvDump(results))],
                            <<"Results saved to">>)
             ELSE SaveResult("UnboundLocalError", made, <<>>)

HasFloat(results) == \E i \in 1..Len(results) : results[i].kind = "float"

\* What formatting the entries raises: a float is printed with
\* {value:>10.{precision}f}, which needs the precision and rejects a negative one.
FormatError(config, results) ==
    IF ~HasFloat(results) THEN "none"
    ELSE IF "precision" \notin DOMAIN config THEN "KeyError"
    ELSE IF config["precision"] < 0 THEN "ValueError"
    ELSE "none"

DisplayResult(exc, printed) == [exc |-> exc, printed |-> printed]

\* display_results(self), github-actions.
DisplayResults(config, results) ==
    IF results = <<>> THEN DisplayResult("none", <<"No results to display">>)
    ELSE DisplayResult(FormatError(config, results), <<"Analysis Results:">>)

\* display_results(self), docker-intro: no check for empty results.
DockerDisplayResults(config, results) ==
    DisplayResult(FormatError(config, results), <<"Analysis Results:">>)

-----------------------------------------------------------------------------
(* DataAnalyzer.analyze *)

AnalyzeResult(exc, results, files, printed) ==
    [exc |-> exc, results |-> results, fs |-> files, printed |-> printed]

\* The steps of analyze() after load_dataset returned `ld`; Display and Save
\* are the variant's display_results and save_results.  self.results is
\* updated in place, so what was merged before an exception stays merged.
AnalyzeSteps(config, results, ld, Display(_, _), Save(_, _, _), files) ==
    IF ld.exc # "none" THEN AnalyzeResult(ld.exc, results, files, ld.printed)
    ELSE
    With(CalculateBasicStats(config, ld.val), LAMBDA basic :
    IF Raised(basic)
        THEN AnalyzeResult(basic.exc, results, files,
                           ld.printed \o <<"Loaded data points">>)
    ELSE
    With(Update(results, basic.val), LAMBDA results1 :
    IF "analysis_mode" \notin DOMAIN config
        THEN AnalyzeResult("KeyError", results1, files,
                           ld.printed \o <<"Loaded data points">>)
    ELSE
    With(IF config["analysis_mode"] \in {"detailed", "advanced"}
            THEN CalculateAdvancedStats(config, ld.val)
            ELSE Ok(<<>>),
         LAMBDA advanced :
    IF Raised(advanced)
        THEN AnalyzeResult(advanced.exc, results1, files,
                           ld.printed \o <<"Loaded data points">>)
    ELSE
    With(Update(results1, advanced.val), LAMBDA results2 :
    With(Display(config, results2), LAMBDA shown :
    IF shown.exc # "none"
        THEN AnalyzeResult(shown.exc, results2, files,
                           ld.printed \o <<"Loaded data points">> \o shown.printed)
    ELSE
    With(Save(config, results2, files), LAMBDA saved :
        AnalyzeResult(saved.exc, results2, saved.fs,
                      ld.printed \o <<"Loaded data points">> \o shown.printed
                      \o saved.printed)))))))

\* analyze(self, data_file), github-actions; returns self.results.
Analyze(config, results, data_file, file, files) ==
    With(LoadDataset(data_file, file), LAMBDA ld :
        AnalyzeSteps(config, results, ld, DisplayResults, SaveResults, files))

\* analyze(self, data_file), docker-intro.
DockerAnalyze(config, results, data_file, file, files) ==
    With(DockerLoadDataset(data_file, file), LAMBDA ld :
        AnalyzeSteps(config, results, ld, DockerDisplayResults, DockerSaveResults,
                     files))

-----------------------------------------------------------------------------
(* main() *)

\* The config key each command-line flag overrides.
FlagOf == [analysis_mode |-> "mode", output_format |-> "output_format",
           precision |-> "precision"]

\* config_overrides: one entry per flag given on the command line.
ConfigOverrides(args) ==
    [k \in {c \in DOMAIN FlagOf : FlagOf[c] \in DOMAIN args} |-> args[FlagOf[k]]]

DataArg(args) == IF "data" \in DOMAIN args THEN args["data"] ELSE NoPath

\* create_sample_data(): the first n sample values, written to DataPath.
SampleFile(n) == ArrayFile([i \in 1..n |-> Num(SampleDataset[i])])

\* An exit code that ignores the results: C7 must tell it from the code's.
ExitCodeZero(results) == "0"

\* return 0 if results else 1
ExitCode(results) == IF results # <<>> THEN "0" ELSE "1"

MainResult(ret, exc, ran, config, results, file, files, printed) ==
    [ret |-> ret, exc |-> exc, ran |-> ran, config |-> config,
     results |-> results, datafile |-> file, fs |-> files, printed |-> printed]

\* main(), github-actions.  ret is the value returned ("None", "0", "1"), or
\* "raised" when an exception leaves main(); ran tells how far it got:
\* "utility", "construct" (the constructor raised) or "analyze".
Main(args, e, file, files) ==
    IF "create_sample" \in DOMAIN args THEN
        IF file.kind = "directory"
            THEN MainResult("raised", "IsADirectoryError", "utility", NoConfig, <<>>,
                            file, MkDir(files, "data"), <<>>)
            ELSE MainResult("None", "none", "utility", NoConfig, <<>>,
                            SampleFile(30), MkDir(files, "data"),
                            <<"Sample data file created">>)
    ELSE IF "validate_env" \in DOMAIN args THEN
        MainResult("None", "none", "utility", NoConfig, <<>>, file,
                   MkDir(MkDir(files, "./output"), "data"),
                   <<"Environment validation complete">>)
    ELSE
    With(InitConfig(ConfigOverrides(args), e), LAMBDA made :
    IF Raised(made)
        THEN MainResult("raised", made.exc, "construct", NoConfig, <<>>,
                        file, files, <<>>)
    ELSE
    With(Analyze(made.val, <<>>, DataArg(args), file, files), LAMBDA an :
        IF an.exc # "none"
            THEN MainResult("1", an.exc, "analyze", made.val, an.results, file,
                            an.fs, an.printed \o <<"Error during analysis">>)
            ELSE MainResult(ExitCode(an.results), "none",
                            "analyze", made.val, an.results, file, an.fs,
                            an.printed \o <<"Analysis complete">>)))

\* main(), docker-intro: --mode defaults to "standard", so args always holds
\* it; the analyzer is built from the overrides alone and analyze() runs
\* outside any try.
DockerMain(args, e, file, files) ==
    IF "create_sample" \in DOMAIN args THEN
        IF file.kind = "directory"
            THEN MainResult("raised", "IsADirectoryError", "utility", NoConfig, <<>>,
                            file, MkDir(files, "data"), <<>>)
            ELSE MainResult("None", "none", "utility", NoConfig, <<>>,
                            SampleFile(20), MkDir(files, "data"),
                            <<"Sample data file created">>)
    ELSE
    With(InitConfig(ConfigOverrides([k \in {"mode"} |-> args["mode"]]), e),
         LAMBDA made :
    IF Raised(made)
        THEN MainResult("raised", made.exc, "construct", NoConfig, <<>>,
                        file, files, <<>>)
    ELSE
    With(DockerAnalyze(made.val, <<>>, DataArg(args), file, files), LAMBDA an :
        IF an.exc # "none"
            THEN MainResult("raised", an.exc, "analyze", made.val, an.results,
                            file, an.fs, an.printed)
            ELSE MainResult("None", "none", "analyze", made.val, an.results,
                            file, an.fs, an.printed \o <<"Analysis complete">>)))

-----------------------------------------------------------------------------
(* DataProcessor (05-feature-workflow) *)

\* DataProcessor(): self.results = {}
NewProcessor == [results |-> <<>>]

StrEntry(k, s) == [key |-> k, val |-> s, kind |-> "str"]

\* The sample dataset load_data returns, in tenths.
ProcessorSampleDataset ==
    << 254, 317, 198, 421, 369, 283, 456, 332, 278, 394,
       227, 481, 345, 269, 413, 307, 378, 246, 439, 321,
       295, 462, 358, 234, 407, 316, 389, 251, 443, 337 >>

\* load_data(self, file_path): FileNotFoundError, json.JSONDecodeError and
\* ValueError are caught, and the sample dataset is returned after a message.
LoadData(file_path, file) ==
    IF file_path # NoPath THEN
        CASE file.kind = "directory" ->
                LoadResult("IsADirectoryError", <<>>, <<>>)
          [] file.kind = "array" ->
                LoadResult("none", NumericEntries(file.items), <<>>)
          [] file.kind \in {"object", "string"} ->
                \* iterating yields the keys / the characters: none is numeric
                LoadResult("none", <<>>, <<>>)
          [] file.kind \in {"number", "null"} ->
                \* TypeError (not iterable) is not among the exceptions caught
                LoadResult("TypeError", <<>>, <<>>)
          [] OTHER ->
                \* "missing", "invalid"
                LoadResult("none", ProcessorSampleDataset,
                           <<"Could not load, using sample data">>)
    ELSE LoadResult("none", ProcessorSampleDataset, <<>>)

\* What analyze_data returns, and self.results after it.
AnalyzeDataResult(ret, results) == [ret |-> ret, results |-> results]

\* An empty-dataset branch that stores the error mapping as the results:
\* what C24 must tell from the code's.
NoDataProvidedStored(results) ==
    AnalyzeDataResult(<<StrEntry("error", "No data provided")>>,
                      <<StrEntry("error", "No data provided")>>)

\* if not data: return {"error": "No data provided"}
NoDataProvided(results) ==
    AnalyzeDataResult(<<StrEntry("error", "No data provided")>>, results)

\* The six metrics, rounded to 2 digits; std_dev is round(0, 2), the int 0,
\* for a single element.
SixMetrics(data) ==
    << IntEntry("count", Len(data)),
       FloatEntry("mean", MeanRounded(data, 2)),
       FloatEntry("median", MedianRounded(data, 2)),
       IF Len(data) > 1 THEN FloatEntry("std_dev", StdevRounded(data, 2))
                        ELSE IntEntry("std_dev", 0),
       FloatEntry("min", Round(MinSeq(data), 1, 1, 2)),
       FloatEntry("max", Round(MaxSeq(data), 1, 1, 2)) >>

\* analyze_data(self, data) on an instance whose results are `results`.
AnalyzeData(results, data) ==
    IF data = <<>> THEN NoDataProvided(results)
    ELSE With(SixMetrics(data), LAMBDA metrics :
            AnalyzeDataResult(metrics, metrics))

\* key.replace('_', ' ').title()
Title ==
    [count |-> "Count", mean |-> "Mean", median |-> "Median",
     std_dev |-> "Std Dev", min |-> "Min", max |-> "Max", error |-> "Error"]

\* The text {value:>10} writes, padding aside.
ValueText(e) == IF e.kind = "str" THEN e.val ELSE NumText(e)

\* display_results(self), DataProcessor: a title, then one line per entry.
ProcessorDisplayResults(results) ==
    IF results = <<>> THEN <<"No results to display">>
    ELSE <<"DATA ANALYSIS RESULTS">>
         \o [i \in 1..Len(results) |->
                [label |-> Title[results[i].key], text |-> ValueText(results[i])]]

\* main(), 05-feature-workflow: returns the results of the sample dataset.
ProcessorMain(file) ==
    With(LoadData(NoPath, file), LAMBDA ld :
    With(AnalyzeData(NewProcessor.results, ld.val), LAMBDA an :
        [ret |-> an.ret, results |-> an.results,
         printed |-> <<"Data Processor v1.5">> \o ld.printed
                     \o <<"Loaded data points">>
                     \o ProcessorDisplayResults(an.results)]))

-----------------------------------------------------------------------------
(* Inputs *)

Restrict(f, S) == [k \in S |-> f[k]]

\* The texts each environment variable takes when it is set; PRECISION's are
\* sequences of characters, for int() to parse.
EnvTexts ==
    [ PRECISION : {<<"1">>, <<"1", "5">>, <<"-", "1">>, <<"a", "b", "c">>},
      OUTPUT_FORMAT : {"csv", "xml"},
      ANALYSIS_MODE : {"detailed", "turbo"},
      INCLUDE_OUTLIERS : {"FALSE"},
      OUTPUT_DIR : {"./results"} ]

EnvNames == {"PRECISION", "OUTPUT_FORMAT", "ANALYSIS_MODE", "INCLUDE_OUTLIERS",
             "OUTPUT_DIR"}

\* Environments with at most MaxEnvVars variables set.
Envs ==
    {Restrict(full, S) : full \in EnvTexts,
                         S \in {T \in SUBSET EnvNames : Cardinality(T) <= MaxEnvVars}}

\* The dataset of test_outlier_detection, [1, 2, 3, 4, 5, 100, 200].
OutlierData == <<10, 20, 30, 40, 50, 1000, 2000>>

\* The dataset of the unit tests, [10.0, 20.0, 30.0, 40.0, 50.0].
TestData == <<100, 200, 300, 400, 500>>

NumItems(data) == [i \in 1..Len(data) |-> Num(data[i])]

\* The JSON arrays the data file may hold.
Arrays ==
    { <<>>,
      <<Num(420)>>,
      NumItems(TestData),
      NumItems(OutlierData),
      <<Num(15), Other("str"), BoolItem(TRUE), Other("null"), Num(25),
        Other("list"), Other("dict"), Num(5)>> }

Files ==
    {NotAFile(k) : k \in {"missing", "directory", "invalid", "object", "string",
                          "number", "null"}}
    \cup {ArrayFile(a) : a \in Arrays}

DirNames == {"./output", "./results", "data"}

\* What an earlier run left in an output directory.
StaleDir ==
    [exists |-> TRUE, json |-> FileOf(JsonDump(<<IntEntry("count", 1)>>)),
     csv |-> FileOf(CsvDump(<<IntEntry("count", 1)>>))]

\* The directories before the first operation: "data" exists with the data
\* file; the default output directory is left over by an earlier run, the
\* other one is absent.
FilesBefore(file) ==
    [d \in DirNames |->
        IF d = "data" THEN [NoDir EXCEPT !.exists = (file.kind # "missing")]
        ELSE IF d = "./output" THEN StaleDir ELSE NoDir]

Modes == {"standard", "detailed", "advanced"}      \* choices of --mode
Formats == {"json", "csv"}                         \* choices of --output-format
CliPrecisions == {0, 2, 10}                        \* among range(0, 11)

\* Command lines of the github-actions main(): any subset of the four
\* value flags, or a utility flag.
MainArgs ==
    {Restrict(full, S) :
        full \in [mode : Modes, output_format : Formats,
                  precision : CliPrecisions, data : {DataPath}],
        S \in SUBSET {"mode", "output_format", "precision", "data"}}
    \cup {[k \in {"create_sample"} |-> TRUE], [k \in {"validate_env"} |-> TRUE],
          [k \in {"create_sample", "validate_env"} |-> TRUE]}

\* Command lines of the docker-intro main(): --mode is always present.
DockerArgs ==
    {Restrict(full, S) :
        full \in [mode : Modes, data : {DataPath}],
        S \in {{"mode"}, {"mode", "data"}}}
    \cup {[mode |-> "standard", create_sample |-> TRUE]}

\* The config of the unit tests' setup_method, with the default output
\* directory in place of the tests' own.
TestConfig ==
    [precision |-> 2, output_format |-> "json", analysis_mode |-> "standard",
     include_outliers |-> TRUE, output_dir |-> "./output"]

\* Arguments of DataAnalyzer(config): none, overrides as main() builds them,
\* and complete mappings as the tests build them.
CtorConfigs ==
    { NoConfig,
      [k \in {"analysis_mode"} |-> "standard"],
      [k \in {"precision"} |-> 0],
      [TestConfig EXCEPT !.output_format = "csv", !.analysis_mode = "detailed"] }

\* Data values (tenths) of the datasets handed directly to the statistics.
Values == {5, 15, 25, 400}

RECURSIVE SeqsUpTo(_)
SeqsUpTo(n) ==
    IF n = 0 THEN {<<>>}
    ELSE LET shorter == SeqsUpTo(n - 1)
         IN  shorter \cup {Append(q, v) : q \in {t \in shorter : Len(t) = n - 1},
                                          v \in Values}

Datasets == SeqsUpTo(MaxLen) \cup {OutlierData, TestData, SampleDataset}

\* [1, 2, ..., 100], in tenths.
OneToHundred == [i \in 1..100 |-> 10 * i]

\* The datasets handed to calculate_advanced_stats.
AdvancedDatasets == Datasets \cup {OneToHundred}

\* The datasets handed to analyze_data: none, one and two values, and three
\* longer ones.
ProcessorDatasets ==
    {<<>>} \cup {<<v>> : v \in Values} \cup {<<v, w>> : v, w \in Values}
    \cup {TestData, OutlierData, ProcessorSampleDataset}

-----------------------------------------------------------------------------
(* State machine *)

NoAnalyzer == [variant |-> "none", config |-> NoConfig, results |-> <<>>]

\* `last` before any operation, and the frame each operation fills in: fs0
\* and results0 are the files and the instance's results before it ran.
Idle(files, results) ==
    [op |-> "none", args |-> NoConfig, path |-> NoPath, data |-> <<>>,
     exc |-> "none", ret |-> "none", ran |-> "none", value |-> <<>>,
     fs0 |-> files, results0 |-> results]

\* Nothing has run: an environment, a data file, the output directories.
Init ==
    /\ env \in Envs
    /\ datafile \in Files
    /\ fs = FilesBefore(datafile)
    /\ analyzer = NoAnalyzer
    /\ processor = NewProcessor
    /\ last = Idle(fs, <<>>)
    /\ out = <<>>

\* One run of the github-actions program.
RunMain ==
    /\ last.op = "none"
    /\ \E args \in MainArgs :
        \E r \in {Main(args, env, datafile, fs)} :
            /\ analyzer' = [variant |-> IF r.ran = "analyze" THEN "gha" ELSE "none",
                            config |-> r.config, results |-> r.results]
            /\ datafile' = r.datafile
            /\ fs' = r.fs
            /\ out' = r.printed
            /\ last' = [Idle(fs, <<>>) EXCEPT !.op = "main", !.args = args,
                            !.path = DataArg(args), !.exc = r.exc, !.ret = r.ret,
                            !.ran = r.ran,
                            !.value = IF r.exc = "none" THEN r.results ELSE <<>>]
    /\ UNCHANGED <<env, processor>>

\* One run of the docker-intro program.
RunDockerMain ==
    /\ last.op = "none"
    /\ \E args \in DockerArgs :
        \E r \in {DockerMain(args, env, datafile, fs)} :
            /\ analyzer' = [variant |-> IF r.ran = "analyze" THEN "docker" ELSE "none",
                            config |-> r.config, results |-> r.results]
            /\ datafile' = r.datafile
            /\ fs' = r.fs
            /\ out' = r.printed
            /\ last' = [Idle(fs, <<>>) EXCEPT !.op = "docker_main", !.args = args,
                            !.path = DataArg(args), !.exc = r.exc, !.ret = r.ret,
                            !.ran = r.ran,
                            !.value = IF r.exc = "none" THEN r.results ELSE <<>>]
    /\ UNCHANGED <<env, processor>>

\* DataAnalyzer(config): a failed construction leaves no instance.
Construct ==
    /\ analyzer.variant = "none"
    /\ \E variant \in {"gha", "docker"}, config \in CtorConfigs :
        \E made \in {InitConfig(config, env)} :
            /\ analyzer' = IF Raised(made) THEN NoAnalyzer
                           ELSE [variant |-> variant, config |-> made.val,
                                 results |-> <<>>]
            /\ last' = [Idle(fs, <<>>) EXCEPT !.op = "construct", !.args = config,
                            !.exc = made.exc, !.ran = variant]
    /\ out' = <<>>
    /\ UNCHANGED <<env, datafile, fs, processor>>

\* analyzer.analyze(data_file)
CallAnalyze ==
    /\ analyzer.variant # "none"
    /\ \E path \in {NoPath, DataPath} :
        \E r \in {IF analyzer.variant = "gha"
                    THEN Analyze(analyzer.config, analyzer.results, path, datafile, fs)
                    ELSE DockerAnalyze(analyzer.config, analyzer.results, path,
                                       datafile, fs)} :
            /\ analyzer' = [analyzer EXCEPT !.results = r.results]
            /\ fs' = r.fs
            /\ out' = r.printed
            /\ last' = [Idle(fs, analyzer.results) EXCEPT !.op = "analyze",
                            !.path = path, !.exc = r.exc, !.ran = analyzer.variant,
                            !.value = IF r.exc = "none" THEN r.results ELSE <<>>]
    /\ UNCHANGED <<env, datafile, processor>>

\* analyzer.load_dataset(file_path)
CallLoadDataset ==
    /\ analyzer.variant # "none"
    /\ \E path \in {NoPath, DataPath} :
        \E r \in {IF analyzer.variant = "gha" THEN LoadDataset(path, datafile)
                                             ELSE DockerLoadDataset(path, datafile)} :
            /\ out' = r.printed
            /\ last' = [Idle(fs, analyzer.results) EXCEPT !.op = "load_dataset",
                            !.path = path, !.exc = r.exc, !.ran = analyzer.variant,
                            !.value = r.val]
    /\ UNCHANGED <<env, datafile, fs, analyzer, processor>>

\* analyzer.save_results()
CallSaveResults ==
    /\ analyzer.variant # "none"
    /\ \E r \in {IF analyzer.variant = "gha"
                    THEN SaveResults(analyzer.config, analyzer.results, fs)
                    ELSE DockerSaveResults(analyzer.config, analyzer.results, fs)} :
           /\ fs' = r.fs
           /\ out' = r.printed
           /\ last' = [Idle(fs, analyzer.results) EXCEPT !.op = "save_results",
                           !.exc = r.exc, !.ran = analyzer.variant]
    /\ UNCHANGED <<env, datafile, analyzer, processor>>

\* analyzer.display_results()
CallDisplayResults ==
    /\ analyzer.variant # "none"
    /\ \E r \in {IF analyzer.variant = "gha"
                    THEN DisplayResults(analyzer.config, analyzer.results)
                    ELSE DockerDisplayResults(analyzer.config, analyzer.results)} :
           /\ out' = r.printed
           /\ last' = [Idle(fs, analyzer.results) EXCEPT !.op = "display_results",
                           !.exc = r.exc, !.ran = analyzer.variant]
    /\ UNCHANGED <<env, datafile, fs, analyzer, processor>>

\* analyzer.calculate_basic_stats(data)
CallBasicStats ==
    /\ analyzer.variant # "none"
    /\ last.op = "none"
    /\ \E data \in Datasets :
        \E r \in {CalculateBasicStats(analyzer.config, data)} :
            last' = [Idle(fs, analyzer.results) EXCEPT !.op = "calculate_basic_stats",
                         !.data = data, !.exc = r.exc, !.ran = analyzer.variant,
                         !.value = r.val]
    /\ out' = <<>>
    /\ UNCHANGED <<env, datafile, fs, analyzer, processor>>

\* analyzer.calculate_advanced_stats(data)
CallAdvancedStats ==
    /\ analyzer.variant # "none"
    /\ last.op = "none"
    /\ \E data \in AdvancedDatasets :
        \E r \in {CalculateAdvancedStats(analyzer.config, data)} :
            last' = [Idle(fs, analyzer.results) EXCEPT !.op = "calculate_advanced_stats",
                         !.data = data, !.exc = r.exc, !.ran = analyzer.variant,
                         !.value = r.val]
    /\ out' = <<>>
    /\ UNCHANGED <<env, datafile, fs, analyzer, processor>>

\* The methods of one instance, called in any order.
Next ==
    \/ Construct
    \/ CallAnalyze
    \/ CallLoadDataset
    \/ CallSaveResults
    \/ CallDisplayResults

Spec == Init /\ [][Next]_vars

\* The two programs, each run once from the command line.
NextMain ==
    \/ RunMain
    \/ RunDockerMain

SpecMain == Init /\ [][NextMain]_vars

\* The statistics called directly on a github-actions instance whose config
\* came from the PRECISION variable or from the constructor's argument.
InitStats ==
    /\ env \in {e \in Envs : DOMAIN e \subseteq {"PRECISION"}}
    /\ datafile = NotAFile("missing")
    /\ fs = FilesBefore(datafile)
    /\ \E config \in CtorConfigs :
        /\ ~Raised(InitConfig(config, env))
        /\ analyzer = [variant |-> "gha", config |-> InitConfig(config, env).val,
                       results |-> <<>>]
    /\ processor = NewProcessor
    /\ last = Idle(fs, <<>>)
    /\ out = <<>>

NextStats ==
    \/ CallBasicStats
    \/ CallAdvancedStats

SpecStats == InitStats /\ [][NextStats]_vars

\* A DataProcessor just constructed, and a data file it may be pointed at.
InitProcessor ==
    /\ env \in {e \in Envs : DOMAIN e = {}}
    /\ datafile \in Files
    /\ fs = FilesBefore(datafile)
    /\ analyzer = NoAnalyzer
    /\ processor = NewProcessor
    /\ last = Idle(fs, <<>>)
    /\ out = <<>>

\* processor.load_data(file_path)
CallLoadData ==
    /\ \E path \in {NoPath, DataPath} :
        \E r \in {LoadData(path, datafile)} :
            /\ out' = r.printed
            /\ last' = [Idle(fs, processor.results) EXCEPT !.op = "load_data",
                            !.path = path, !.exc = r.exc, !.ran = "processor",
                            !.value = r.val]
    /\ UNCHANGED <<env, datafile, fs, analyzer, processor>>

\* processor.analyze_data(data)
CallAnalyzeData ==
    /\ \E data \in ProcessorDatasets :
        \E r \in {AnalyzeData(processor.results, data)} :
            /\ processor' = [processor EXCEPT !.results = r.results]
            /\ last' = [Idle(fs, processor.results) EXCEPT !.op = "analyze_data",
                            !.data = data, !.ran = "processor", !.value = r.ret]
    /\ out' = <<>>
    /\ UNCHANGED <<env, datafile, fs, analyzer>>

\* processor.display_results()
CallProcessorDisplay ==
    /\ out' = ProcessorDisplayResults(processor.results)
    /\ last' = [Idle(fs, processor.results) EXCEPT !.op = "display_results",
                    !.ran = "processor"]
    /\ UNCHANGED <<env, datafile, fs, analyzer, processor>>

\* One run of the 05-feature-workflow program, which builds its own instance.
RunProcessorMain ==
    /\ \E r \in {ProcessorMain(datafile)} :
        /\ processor' = [results |-> r.results]
        /\ out' = r.printed
        /\ last' = [Idle(fs, <<>>) EXCEPT !.op = "processor_main",
                        !.data = ProcessorSampleDataset, !.ran = "processor",
                        !.value = r.ret]
    /\ UNCHANGED <<env, datafile, fs, analyzer>>

NextProcessor ==
    \/ CallLoadData
    \/ CallAnalyzeData
    \/ CallProcessorDisplay
    \/ RunProcessorMain

SpecProcessor == InitProcessor /\ [][NextProcessor]_vars

-----------------------------------------------------------------------------
(* Properties *)

\* Whether the last operation printed msg.
Printed(msg) == \E i \in 1..Len(out) : out[i] = msg

OptionKeys == {"precision", "output_format", "analysis_mode", "output_dir"}

\* The value an option should have after main() parsed args: the flag's value
\* if the flag was given, otherwise the environment's value or the default.
MergedOption(k, args, e) ==
    IF k \in DOMAIN FlagOf /\ FlagOf[k] \in DOMAIN args
        THEN args[FlagOf[k]]
        ELSE LoadDefaultConfig(e).val[k]

\* An analysis run of either main() got as far as running analyze().
AnalysisRan == last.op \in {"main", "docker_main"} /\ last.ran = "analyze"

\* C1: after main() (github-actions or docker-intro) has parsed its flags, the
\* analyzer's config holds each of precision, output_format, analysis_mode
\* and output_dir, with the flag's value if the flag was given, otherwise the
\* environment variable's value if set, otherwise the default.
C1_ConfigIsMerged ==
    (AnalysisRan /\ ~Raised(LoadDefaultConfig(env))) =>
        \A k \in OptionKeys :
            /\ k \in DOMAIN analyzer.config
            /\ analyzer.config[k] = MergedOption(k, last.args, env)

\* C2: for the dataset [1, 2, 3, 4, 5, 100, 200] at precision 2,
\* calculate_advanced_stats returns outlier_count >= 1 and
\* outlier_percentage > 0.
C2_OutliersDetected ==
    ( /\ last.op = "calculate_advanced_stats"
      /\ last.data = OutlierData
      /\ "precision" \in DOMAIN analyzer.config
      /\ analyzer.config["precision"] = 2 ) =>
        /\ last.exc = "none"
        /\ HasKey(last.value, "outlier_count")
        /\ Get(last.value, "outlier_count") >= 1
        /\ HasKey(last.value, "outlier_percentage")
        /\ Get(last.value, "outlier_percentage") > 0

\* C3: a github-actions DataAnalyzer constructed with a config that sets only
\* analysis_mode = "standard" runs analyze() on a non-empty dataset without
\* raising, and the returned results contain mean, median and count.
C3_ModeOnlyConfigAnalyzes ==
    ( /\ last.op = "analyze"
      /\ last.ran = "gha"
      /\ DOMAIN analyzer.config = {"analysis_mode"}
      /\ analyzer.config["analysis_mode"] = "standard"
      /\ LoadDataset(last.path, datafile).exc = "none"
      /\ LoadDataset(last.path, datafile).val # <<>> ) =>
        /\ last.exc = "none"
        /\ {"mean", "median", "count"} \subseteq Keys(last.value)

\* The bad input files C4 lists: missing, not valid JSON, or JSON that is not
\* an array (an object, a string, a number, null).
BadFileKinds == {"missing", "invalid", "object", "string", "number", "null"}

\* C4: load_dataset (github-actions) called with the path of a bad input file
\* never raises: it prints a warning and returns the hard-coded sample dataset.
C4_BadFileFallsBack ==
    ( /\ last.op = "load_dataset"
      /\ last.ran = "gha"
      /\ last.path # NoPath
      /\ datafile.kind \in BadFileKinds ) =>
        /\ last.exc = "none"
        /\ last.value = SampleDataset
        /\ out # <<>>

\* The analyzer's output_format is set and is neither "json" nor "csv".
FormatUnsupported ==
    /\ "output_format" \in DOMAIN analyzer.config
    /\ analyzer.config["output_format"] \notin {"json", "csv"}

\* No result file of any directory differs from what it was before the
\* last operation.
NoFileWritten ==
    \A d \in DirNames : /\ fs[d].json = last.fs0[d].json
                        /\ fs[d].csv = last.fs0[d].csv

\* A github-actions main() run whose analyze() got to save_results (the steps
\* before it returned) with non-empty results and an unsupported format.
C5_SaveCalledUnsupported ==
    /\ last.op = "main"
    /\ last.ran = "analyze"
    /\ analyzer.results # <<>>
    /\ FormatUnsupported
    /\ "analysis_mode" \in DOMAIN analyzer.config
    /\ DisplayResults(analyzer.config, analyzer.results).exc = "none"

\* C5: in the github-actions variant, when save_results is called with
\* non-empty results and an output_format that is neither "json" nor "csv", it
\* prints 'Unsupported output format' and writes no file, and the run goes
\* on: analyze() returns the computed results and main() returns 0.
C5_UnsupportedFormatSkipsSave ==
    C5_SaveCalledUnsupported =>
        /\ Printed("Unsupported output format")
        /\ NoFileWritten
        /\ last.exc = "none"
        /\ last.value = analyzer.results
        /\ last.ret = "0"

\* C5's case happens: such a run printed the notice and returned 0.
C5_Witness ==
    /\ C5_SaveCalledUnsupported
    /\ Printed("Unsupported output format")
    /\ last.ret = "0"

\* C6: in the docker-intro variant, when analyze() runs with an output_format
\* that is neither "json" nor "csv" and everything before the save step
\* succeeds, analyze() displays and returns the computed results and raises
\* no exception.
C6_DockerUnsupportedFormat ==
    ( /\ last.op = "analyze"
      /\ last.ran = "docker"
      /\ FormatUnsupported
      /\ {"precision", "analysis_mode", "output_dir"} \subseteq DOMAIN analyzer.config
      /\ DockerLoadDataset(last.path, datafile).exc = "none"
      /\ DockerDisplayResults(analyzer.config, analyzer.results).exc = "none" ) =>
        /\ last.exc = "none"
        /\ Printed("Analysis Results:")
        /\ last.value = analyzer.results

\* analyze() returned a non-empty results mapping to the github-actions main().
AnalyzeReturnedResults ==
    last.ran = "analyze" /\ last.exc = "none" /\ last.value # <<>>

\* C7: for an analysis run of the github-actions main(), the exit code is 0
\* exactly when analyze() returns a non-empty results mapping, and 1 when
\* analyze() returns empty results or raises.
C7_ExitCode ==
    (last.op = "main" /\ last.ran # "utility") =>
        /\ (last.ret = "0") <=> AnalyzeReturnedResults
        /\ (last.ran = "analyze" /\ ~AnalyzeReturnedResults) => last.ret = "1"

\* C7's case happens: an analysis run returned 0 with non-empty results.
C7_Witness ==
    /\ last.op = "main"
    /\ AnalyzeReturnedResults
    /\ last.ret = "0"

\* C8: every exception raised inside an analysis run of the github-actions
\* main() after argument parsing, the analyzer's construction from the
\* environment included, is caught in main(), logged as 'Error during
\* analysis' and turned into return value 1.
C8_ExceptionsCaught ==
    (last.op = "main" /\ last.ran # "utility" /\ last.exc # "none") =>
        /\ last.ret = "1"
        /\ Printed("Error during analysis")

\* C9: in every run of the github-actions main(), the precision the analyzer
\* computes with is an integer between 0 and 10 inclusive.
C9_PrecisionInRange ==
    ( /\ last.op = "main"
      /\ last.ran = "analyze"
      /\ "precision" \in DOMAIN analyzer.config ) =>
        analyzer.config["precision"] \in 0..10

\* C10: calculate_basic_stats (github-actions) returns the empty mapping for
\* an empty dataset, exactly the keys count, mean, median, min, max for a
\* one-element dataset, and those five plus std_dev and variance for every
\* dataset with more than one element.
C10_BasicStatsKeys ==
    last.op = "calculate_basic_stats" =>
        /\ last.exc = "none"
        /\ last.data = <<>> => last.value = <<>>
        /\ Len(last.data) = 1 =>
               Keys(last.value) = {"count", "mean", "median", "min", "max"}
        /\ Len(last.data) > 1 =>
               Keys(last.value) = {"count", "mean", "median", "min", "max",
                                   "std_dev", "variance"}

\* The values of a dataset.
Elements(data) == {data[i] : i \in 1..Len(data)}

\* calculate_basic_stats was called with a non-empty dataset on an instance
\* that has a configured precision.
BasicStatsCalled ==
    /\ last.op = "calculate_basic_stats"
    /\ last.data # <<>>
    /\ "precision" \in DOMAIN analyzer.config

\* The median of the claim: the middle element of the sorted data, the
\* average of the two middle elements when the count is even; rounded.
MiddleOf(data, precision) ==
    LET s == Sorted(data)
        n == Len(data)
    IN  IF n % 2 = 1 THEN Round(s[(n + 1) \div 2], 1, 1, precision)
        ELSE Round(s[n \div 2] + s[n \div 2 + 1], 2, 1, precision)

\* C11: for every non-empty dataset, calculate_basic_stats (on an instance
\* with a configured precision) reports count = number of elements, min =
\* smallest element, max = largest element, median = middle of the sorted
\* data and mean = sum / count, each rounded to the precision; [10, 20, 30,
\* 40, 50] gives mean 30, median 30, min 10, max 50, count 5, and a
\* one-element dataset gives mean = median = min = max = that element.
C11_BasicStatsValues ==
    BasicStatsCalled =>
        LET data == last.data
            p == analyzer.config["precision"]
            v == last.value
        IN  /\ last.exc = "none"
            /\ Get(v, "count") = Len(data)
            /\ \E x \in Elements(data) :
                   /\ \A y \in Elements(data) : x <= y
                   /\ Get(v, "min") = Round(x, 1, 1, p)
            /\ \E x \in Elements(data) :
                   /\ \A y \in Elements(data) : x >= y
                   /\ Get(v, "max") = Round(x, 1, 1, p)
            /\ Get(v, "median") = MiddleOf(data, p)
            /\ Get(v, "mean") = Round(SumSeq(data), Len(data), 1, p)
            /\ data = TestData =>
                   /\ Get(v, "mean") = 3000 /\ Get(v, "median") = 3000
                   /\ Get(v, "min") = 1000 /\ Get(v, "max") = 5000
                   /\ Get(v, "count") = 5
            /\ Len(data) = 1 =>
                   \A k \in {"mean", "median", "min", "max"} :
                       Get(v, k) = Round(data[1], 1, 1, p)

\* C11's case happens: the statistics of [10, 20, 30, 40, 50] were returned.
C11_Witness ==
    /\ BasicStatsCalled
    /\ last.data = TestData
    /\ last.exc = "none"
    /\ Get(last.value, "mean") = 3000

AdvancedKeys ==
    {"p25", "p50", "p75", "p90", "p95", "iqr", "outlier_count", "outlier_percentage"}

\* C12: calculate_advanced_stats (github-actions) returns the empty mapping
\* for every dataset with fewer than 4 elements, and for every dataset with 4
\* or more elements a mapping whose key set is exactly p25, p50, p75, p90,
\* p95, iqr, outlier_count, outlier_percentage.
C12_AdvancedStatsKeys ==
    last.op = "calculate_advanced_stats" =>
        /\ last.exc = "none"
        /\ Len(last.data) < 4 => last.value = <<>>
        /\ Len(last.data) >= 4 => Keys(last.value) = AdvancedKeys

\* The JSON numbers among the entries of an array, in order: what is left
\* when strings, nulls, booleans, nested arrays and objects are dropped.
JsonNumbers(items) ==
    LET kept == SelectSeq(items, LAMBDA item : item.t = "num")
    IN  [i \in 1..Len(kept) |-> kept[i].v]

\* C13: when the input file holds a JSON array, load_dataset (github-actions)
\* returns exactly its numeric entries, in their order and with their
\* values; every non-numeric entry (string, null, boolean, nested array,
\* object) is dropped without an error or a message.
C13_ArrayIsFiltered ==
    ( /\ last.op = "load_dataset"
      /\ last.ran = "gha"
      /\ last.path # NoPath
      /\ datafile.kind = "array" ) =>
        /\ last.exc = "none"
        /\ out = <<>>
        /\ last.value = JsonNumbers(datafile.items)

\* save_results was called on a github-actions instance.
SaveResultsCalled == last.op = "save_results" /\ last.ran = "gha"

\* C14: when results are empty, save_results (github-actions) prints 'No
\* results to save' and changes nothing on disk: it creates no output
\* directory and creates or modifies no analysis_results file.
C14_EmptyResultsSaveNothing ==
    (SaveResultsCalled /\ last.results0 = <<>>) =>
        /\ last.exc = "none"
        /\ out = <<"No results to save">>
        /\ fs = last.fs0

\* C14's case happens: save_results returned with empty results while the
\* configured output directory does not exist, and it still does not.
C14_Witness ==
    /\ SaveResultsCalled
    /\ last.results0 = <<>>
    /\ "output_dir" \in DOMAIN analyzer.config
    /\ ~last.fs0[analyzer.config["output_dir"]].exists
    /\ ~fs[analyzer.config["output_dir"]].exists
    /\ Printed("No results to save")

\* The keys of a results mapping in the order analyze() inserts them: the
\* basic metrics, the spread, the advanced metrics.
InsertionOrder ==
    << "count", "mean", "median", "min", "max", "std_dev", "variance",
       "p25", "p50", "p75", "p90", "p95", "iqr", "outlier_count",
       "outlier_percentage" >>

\* The instance's output_format is fmt.
FormatIs(fmt) ==
    /\ "output_format" \in DOMAIN analyzer.config
    /\ analyzer.config["output_format"] = fmt

\* C15: with output_format "csv" and non-empty results, save_results
\* (github-actions) writes analysis_results.csv whose first line is
\* 'metric,value' and whose following lines are exactly one 'key,value' line
\* per entry of results, in insertion order (count, mean, median, min, max,
\* then std_dev and variance, then the advanced metrics), with nothing else.
C15_CsvInInsertionOrder ==
    (SaveResultsCalled /\ last.results0 # <<>> /\ FormatIs("csv")) =>
        LET results == last.results0
            file == fs[analyzer.config["output_dir"]].csv
        IN  /\ last.exc = "none"
            /\ file.exists
            /\ Len(file.body) = Len(results) + 1
            /\ file.body[1] = [key |-> "metric", text |-> "value"]
            /\ \A i \in 1..Len(results) :
                   /\ file.body[i + 1].key = results[i].key
                   /\ file.body[i + 1].text = NumText(results[i])
            /\ KeySeq(results) = SubSeq(InsertionOrder, 1, Len(results))

\* C15's case happens: a csv file with the advanced metrics was written.
C15_Witness ==
    /\ SaveResultsCalled
    /\ FormatIs("csv")
    /\ Len(last.results0) = Len(InsertionOrder)
    /\ fs[analyzer.config["output_dir"]].csv.exists
    /\ Len(fs[analyzer.config["output_dir"]].csv.body) = Len(InsertionOrder) + 1

\* Two mappings with the same keys and the same values.
SameMapping(a, b) ==
    /\ Keys(a) = Keys(b)
    /\ \A k \in Keys(a) : Get(a, k) = Get(b, k)

\* analyze() (github-actions) completed and returned a non-empty mapping.
AnalyzeCompleted ==
    /\ last.op = "analyze"
    /\ last.ran = "gha"
    /\ last.exc = "none"
    /\ last.value # <<>>

\* C16: after analyze() (github-actions) completes with output_format "json"
\* and non-empty results, parsing the written analysis_results.json yields a
\* mapping with the same keys and values as the results analyze() returned
\* and the instance holds.
C16_JsonRoundTrip ==
    (AnalyzeCompleted /\ FormatIs("json")) =>
        LET file == fs[analyzer.config["output_dir"]].json
        IN  /\ file.exists
            /\ SameMapping(JsonLoad(file.body), last.value)
            /\ last.value = analyzer.results

\* C16's case happens: analyze() wrote a json file holding a float with a
\* fraction (the sample's mean, 33.34).
C16_Witness ==
    /\ AnalyzeCompleted
    /\ FormatIs("json")
    /\ fs[analyzer.config["output_dir"]].json.exists
    /\ HasKey(last.value, "mean")
    /\ Get(last.value, "mean") = 3334

\* calculate_advanced_stats was called with 4 or more elements on an instance
\* that has a configured precision.
AdvancedStatsCalled ==
    /\ last.op = "calculate_advanced_stats"
    /\ Len(last.data) >= 4
    /\ "precision" \in DOMAIN analyzer.config

\* The element at zero-based index k of the ascending-sorted data: at most k
\* elements are smaller, more than k are smaller or equal.
SortedAt(data, k) ==
    CHOOSE x \in Elements(data) :
        /\ Cardinality({j \in 1..Len(data) : data[j] < x}) <= k
        /\ Cardinality({j \in 1..Len(data) : data[j] <= x}) > k

\* floor(n * p / 100) clamped to [0, n - 1].
NearestRank(n, p) ==
    LET f == (n * p) \div 100
    IN  IF f < 0 THEN 0 ELSE IF f > n - 1 THEN n - 1 ELSE f

\* C17: for every dataset of n >= 4 elements and every p in {25, 50, 75, 90,
\* 95}, the value calculate_advanced_stats reports as p<p> is the element of
\* the ascending-sorted data at index floor(n * p / 100) clamped to
\* [0, n - 1], rounded to the configured precision, with no interpolation.
C17_NearestRankPercentiles ==
    AdvancedStatsCalled =>
        /\ last.exc = "none"
        /\ \A p \in {25, 50, 75, 90, 95} :
               Get(last.value, PercentileKey[p])
                   = Round(SortedAt(last.data, NearestRank(Len(last.data), p)),
                           1, 1, analyzer.config["precision"])

\* C17's case happens: for [1, 2, 3, 4, 5, 100, 200] at precision 2, p75 is
\* the element at index 5, 100, and not a value between two elements.
C17_Witness ==
    /\ AdvancedStatsCalled
    /\ last.data = OutlierData
    /\ analyzer.config["precision"] = 2
    /\ Get(last.value, "p75") = 10000
    /\ Get(last.value, "p25") = 200

\* Whether value x (tenths) is outside the bounds q1 - 1.5 * iqr and
\* q3 + 1.5 * iqr (hundredths): both sides are multiplied by 2.
OutsideBounds(x, q1, q3, iqr) ==
    \/ 2 * (10 * x) < 2 * q1 - 3 * iqr
    \/ 2 * (10 * x) > 2 * q3 + 3 * iqr

\* Whether value x (tenths) is exactly one of the two bounds.
OnBound(x, q1, q3, iqr) ==
    \/ 2 * (10 * x) = 2 * q1 - 3 * iqr
    \/ 2 * (10 * x) = 2 * q3 + 3 * iqr

\* C18: for every dataset of n >= 4 elements, calculate_advanced_stats
\* reports iqr = p75 - p25, outlier_count is exactly the number of data values
\* x with x < q1 - 1.5 * IQR or x > q3 + 1.5 * IQR (q1 = p25, q3 = p75), a
\* value equal to a bound not being an outlier, and outlier_percentage is
\* outlier_count / n * 100 rounded to the precision.
C18_IqrAndOutliers ==
    AdvancedStatsCalled =>
        LET v == last.value
            data == last.data
            q1 == Get(v, "p25")
            q3 == Get(v, "p75")
            iqr == Get(v, "iqr")
            count == Cardinality({j \in 1..Len(data) :
                                     OutsideBounds(data[j], q1, q3, iqr)})
        IN  /\ iqr = q3 - q1
            /\ Get(v, "outlier_count") = count
            /\ Get(v, "outlier_percentage")
                   = Round(count * 100, Len(data), 0, analyzer.config["precision"])

\* C18's case happens: one value is an outlier while another value, equal to
\* a bound, is not counted.
C18_Witness ==
    /\ AdvancedStatsCalled
    /\ last.exc = "none"
    /\ Get(last.value, "outlier_count") = 1
    /\ \E j \in 1..Len(last.data) :
           OnBound(last.data[j], Get(last.value, "p25"), Get(last.value, "p75"),
                   Get(last.value, "iqr"))

\* C19: rounding is applied only to the result of each computation, never to
\* its inputs: the percentiles are the rounded elements of the unrounded
\* sorted data, and iqr is computed from the unrounded 25th and 75th
\* percentile elements, so that the reported iqr equals
\* round(sorted[i75] - sorted[i25], precision).
C19_RoundingAfterComputation ==
    AdvancedStatsCalled =>
        LET data == last.data
            n == Len(data)
            p == analyzer.config["precision"]
        IN  /\ Get(last.value, "p25") = Round(SortedAt(data, NearestRank(n, 25)), 1, 1, p)
            /\ Get(last.value, "p75") = Round(SortedAt(data, NearestRank(n, 75)), 1, 1, p)
            /\ Get(last.value, "iqr")
                   = Round(SortedAt(data, NearestRank(n, 75))
                           - SortedAt(data, NearestRank(n, 25)), 1, 1, p)

\* The same values in other orders: reversed, rotated by one, first two
\* swapped.  Applied to every dataset, the last two reach every order.
Reorderings(s) ==
    IF Len(s) < 2 THEN {s}
    ELSE { [i \in 1..Len(s) |-> s[Len(s) + 1 - i]],
           Tail(s) \o <<Head(s)>>,
           <<s[2], s[1]>> \o SubSeq(s, 3, Len(s)) }

LatestMetrics ==
    LET data == LoadDataset(last.path, datafile).val
        config == analyzer.config
        basic == CalculateBasicStats(config, data).val
        advanced == IF /\ "analysis_mode" \in DOMAIN config
                       /\ config["analysis_mode"] \in {"detailed", "advanced"}
                        THEN CalculateAdvancedStats(config, data).val
                        ELSE <<>>
    IN  Update(basic, advanced)

\* C21: after any sequence of analyze() calls on one instance, the results
\* mapping, which analyze() returns, holds exactly the metrics of the dataset
\* analyzed last under the current configuration: no key or value computed
\* from an earlier dataset remains.
C21_ResultsAreLatest ==
    (last.op = "analyze" /\ last.ran = "gha" /\ last.exc = "none") =>
        /\ last.value = analyzer.results
        /\ SameMapping(analyzer.results, LatestMetrics)

\* analyze() (github-actions) was called on a fresh instance: by main(), or
\* directly on an instance whose results were still empty.
FreshAnalyze ==
    \/ last.op = "main" /\ last.ran = "analyze"
    \/ last.op = "analyze" /\ last.ran = "gha" /\ last.results0 = <<>>

\* Whether the configuration asks for the advanced metrics.
ModeIsDetailed ==
    /\ "analysis_mode" \in DOMAIN analyzer.config
    /\ analyzer.config["analysis_mode"] \in {"detailed", "advanced"}

\* C22: on a fresh instance, analyze() puts the eight advanced metrics into
\* results if and only if analysis_mode is "detailed" or "advanced" and the
\* dataset has at least 4 elements; with "standard" or any other mode string,
\* results hold only the basic metrics.
C22_AdvancedIffDetailed ==
    FreshAnalyze =>
        LET loaded == LoadDataset(last.path, datafile)
        IN  loaded.exc = "none" =>
                /\ (AdvancedKeys \subseteq Keys(analyzer.results))
                       <=> (ModeIsDetailed /\ Len(loaded.val) >= 4)
                /\ ~ModeIsDetailed =>
                       Keys(analyzer.results) \subseteq
                           {"count", "mean", "median", "min", "max", "std_dev",
                            "variance"}

\* A sequence of numbers that never decreases.
NonDecreasing(s) == \A i \in 1..(Len(s) - 1) : s[i] <= s[i + 1]

\* C23: for every dataset of n >= 4 elements and every precision, the values
\* reported by calculate_basic_stats and calculate_advanced_stats satisfy
\* min <= p25 <= p50 <= p75 <= p90 <= p95 <= max, iqr >= 0,
\* 0 <= outlier_count <= n and 0 <= outlier_percentage <= 100.
C23_ReportedValuesOrdered ==
    AdvancedStatsCalled =>
        LET v == last.value
            basic == BasicFive(last.data, analyzer.config["precision"])
        IN  /\ last.exc = "none"
            /\ NonDecreasing(<<Get(basic, "min"), Get(v, "p25"), Get(v, "p50"),
                               Get(v, "p75"), Get(v, "p90"), Get(v, "p95"),
                               Get(basic, "max")>>)
            /\ Get(v, "iqr") >= 0
            /\ Get(v, "outlier_count") \in 0..Len(last.data)
            /\ Get(v, "outlier_percentage") >= 0
            /\ Get(v, "outlier_percentage") <= 100 * 100

\* C23's case happens: a dataset given out of order whose reported values
\* are strictly apart (min < p25 < p75 < max), with a positive iqr.
C23_Witness ==
    /\ AdvancedStatsCalled
    /\ last.exc = "none"
    /\ ~NonDecreasing(last.data)
    /\ Get(BasicFive(last.data, analyzer.config["precision"]), "min")
           < Get(last.value, "p25")
    /\ Get(last.value, "p25") < Get(last.value, "p75")
    /\ Get(last.value, "p75")
           < Get(BasicFive(last.data, analyzer.config["precision"]), "max")
    /\ Get(last.value, "iqr") > 0

SixKeys == <<"count", "mean", "median", "std_dev", "min", "max">>

\* C24: analyze_data on an empty dataset returns {"error": "No data
\* provided"} and leaves the instance's results unchanged, so that a later
\* display_results shows the results of the previous successful analysis, or
\* 'No results to display' if there was none; analyze_data on a non-empty
\* dataset replaces results entirely with the six metrics count, mean,
\* median, std_dev, min, max of that dataset.
C24_EmptyDatasetKeepsResults ==
    /\ (last.op = "analyze_data" /\ last.data = <<>>) =>
           /\ KeySeq(last.value) = <<"error">>
           /\ last.value[1].val = "No data provided"
           /\ processor.results = last.results0
    /\ (last.op = "analyze_data" /\ last.data # <<>>) =>
           /\ processor.results = last.value
           /\ KeySeq(processor.results) = SixKeys
           /\ Get(processor.results, "count") = Len(last.data)
           /\ Get(processor.results, "mean") = Round(SumSeq(last.data), Len(last.data), 1, 2)
           /\ Get(processor.results, "median") = MiddleOf(last.data, 2)
           /\ Get(processor.results, "min") = 10 * MinSeq(last.data)
           /\ Get(processor.results, "max") = 10 * MaxSeq(last.data)
           /\ Len(last.data) = 1 => Get(processor.results, "std_dev") = 0
    /\ (last.op = "display_results" /\ last.ran = "processor") =>
           /\ processor.results = last.results0
           /\ processor.results = <<>> => out = <<"No results to display">>
           /\ processor.results # <<>> =>
                  /\ Head(out) = "DATA ANALYSIS RESULTS"
                  /\ Tail(out) = [i \in 1..Len(processor.results) |->
                                     [label |-> Title[processor.results[i].key],
                                      text |-> ValueText(processor.results[i])]]
                  /\ KeySeq(processor.results) = SixKeys

\* C24's case happens: after a successful analysis, analyze_data([]) returned
\* the error mapping and the six metrics of the earlier dataset are still the
\* instance's results.
C24_Witness ==
    /\ last.op = "analyze_data"
    /\ last.data = <<>>
    /\ KeySeq(last.value) = <<"error">>
    /\ KeySeq(processor.results) = SixKeys
    /\ Get(processor.results, "count") = 30
    /\ Get(processor.results, "mean") = 3407

=============================================================================
